---- MODULE Spec2Model ----
(***************************************************************************)
(* Swoosh signaling server: the room registry (roomUsers / userRoomMap),   *)
(* the socket.io rooms the handlers join and emit to, and the socket event *)
(* handlers of the set-based server.                                       *)
(*                                                                         *)
(* Every handler is an async function.  JavaScript runs the code between   *)
(* two awaits without interruption, so each handler is modelled as the     *)
(* atomic step up to its await on the analytics call and, for the handlers *)
(* that do something after it, an atomic continuation that runs when the   *)
(* analytics call returns.  Continuations of different handler runs resume *)
(* in any order.                                                              *)
(***************************************************************************)
EXTENDS Integers, FiniteSets, Sequences, TLC

\* Socket ids of the connections the model follows, in the order in which
\* the connections send their first event.
ConnOrder == << "c1", "c2", "c3" >>

Conns == {ConnOrder[i] : i \in DOMAIN ConnOrder}

\* The room ids generateRoomId returns (two of its 36^6 values), in the order
\* in which it returns them for the first time.
RoomOrder == << "R1", "R2" >>

RoomIds == {RoomOrder[i] : i \in DOMAIN RoomOrder}

\* The relayed events clients send, each with the opaque payload it carries.
RelayInputs ==
  { [event |-> "offer", payload |-> "sdp-offer"],
    [event |-> "answer", payload |-> "sdp-answer"],
    [event |-> "ice-candidate", payload |-> "candidate"] }

\* Client events (and transport teardowns) the server handles in a run.
MaxOps == 4

\* offer / answer / ice-candidate handler runs suspended on trackSignalingEvent at once.
MaxRelays == 1

\* Analytics calls that run concurrently against the store.
MaxCalls == 3

\* Transfer and signaling events the server takes in a run of SessionSpec.
MaxTransferOps == 4

\* Events the count-based server takes.
MaxCountOps == 4

MAX_ROOM_CAPACITY == 2

None == "none"

RelayEvents == {i.event : i \in RelayInputs}

\* The roomId arguments clients send with join-room and the relayed events.
RoomArgs == RoomIds

VARIABLES
  roomUsers,    \* Map<RoomID, Set<SocketID>>: a function on the registered room ids
  userRoomMap,  \* Map<SocketID, RoomID>: a function on the mapped socket ids
  sockRooms,    \* socket.io adapter: the sockets joined to each room id
  connected,    \* socket.connected of each connection
  pending,      \* handler runs suspended on their await: a bag of their captured locals
  emitted,      \* the emit calls of the last step, in order
  lastOp,       \* the handler (and its phase) the last step ran
  dismissals,   \* room-dismissed broadcasts since the room id was last created
  handled,      \* events handled so far
  seenConns,    \* how many connections of ConnOrder have sent an event
  seenRooms,    \* how many room ids of RoomOrder generateRoomId has returned
  collided,     \* generateRoomId has returned the id of a registered room
  arrivals,     \* the suspended handler runs in the order their events arrived (OrderSpec)
  store,        \* the MongoDB deployment: "up", or "down" when every operation on it fails
  dailyStats,   \* the DailyStats document of today, if there is one (StatsSpec)
  roomEvents,   \* how many 'closed' RoomEvent documents of today name the room (StatsSpec)
  calls,        \* the analytics calls in progress: function, await reached, locals (StatsSpec)
  day0,         \* dailyStats as it was before the calls
  closed0,      \* roomEvents as it was before the calls
  sessions,     \* the TransferSession documents, by sessionId (SessionSpec)
  runs,         \* the transfer / signaling-count handler runs in progress (SessionSpec)
  transferOps,  \* transfer and signaling events taken so far (SessionSpec)
  counted,      \* what the handler runs naming a session id added to the day's
                \* transfersCompleted and totalBytesTransferred (SessionSpec)
  roomOccupancy,  \* Map<RoomID, UserCount> of the count-based server (CountSpec)
  socketRooms,    \* socket.rooms of each socket, in join order, its own id left out (CountSpec)
  offline,        \* the sockets that have disconnected (CountSpec)
  leaving,        \* the disconnecting handler runs suspended on trackUserLeft (CountSpec)
  countOps,       \* events the count-based server has taken so far (CountSpec)
  overlap         \* a create-room drew a registered id, or a socket joined a room twice (CountSpec)

serverVars == <<roomUsers, userRoomMap, sockRooms, connected, pending, emitted, lastOp,
                dismissals, handled, seenConns, seenRooms, collided, arrivals, store>>

statsVars == <<dailyStats, roomEvents, calls, day0, closed0>>

sessionVars == <<sessions, runs, transferOps, counted>>

countVars == <<roomOccupancy, socketRooms, offline, leaving, countOps, overlap>>

vars == <<serverVars, statsVars, sessionVars, countVars>>

----------------------------------------------------------------------------
\* Map helpers

MapSet(f, k, v) == [x \in DOMAIN f \cup {k} |-> IF x = k THEN v ELSE f[x]]

MapDelete(f, k) == [x \in DOMAIN f \ {k} |-> f[x]]

MapGet(f, k) == IF k \in DOMAIN f THEN f[k] ELSE None

----------------------------------------------------------------------------
\* socket.io

\* The sockets in adapter room roomId: those that joined it and have neither left it
\* nor disconnected.  (The room socket.io names after each socket's own id is left
\* out: the clients of the model name room ids only.)
AdapterRoom(roomId) == sockRooms[roomId]

\* io.to(roomId): every socket in the room.
IoTo(roomId) == AdapterRoom(roomId)

\* A relay that broadcasts with io.to, the sender included.
SocketTo_WithSender(roomId, sender) == AdapterRoom(roomId)

\* socket.to(roomId): every socket in the room but the sender.
SocketTo(roomId, sender) == AdapterRoom(roomId) \ {sender}

\* socket.emit reaches the socket itself while it is connected.
SocketSelf(c) == IF connected[c] THEN {c} ELSE {}

Emit(event, to, data) == [event |-> event, to |-> to, data |-> data]

----------------------------------------------------------------------------
\* Registry helpers

getRoomOccupancy(roomId) ==
  IF roomId \in DOMAIN roomUsers THEN Cardinality(roomUsers[roomId]) ELSE 0

isRoomFull(roomId) == getRoomOccupancy(roomId) > MAX_ROOM_CAPACITY

roomExists(roomId) == roomId \in DOMAIN roomUsers

\* The locals a handler run holds across its await (and the arguments it got).
Task(op, c, roomId, occ, payload) ==
  [op |-> op, conn |-> c, room |-> roomId, occ |-> occ, payload |-> payload]

\* pending is a bag: how many suspended runs hold exactly these locals.
Suspended == DOMAIN pending

Suspend(t) ==
  IF t \in DOMAIN pending
  THEN [pending EXCEPT ![t] = @ + 1]
  ELSE [x \in DOMAIN pending \cup {t} |-> IF x = t THEN 1 ELSE pending[x]]

Resume(t) ==
  IF pending[t] > 1
  THEN [pending EXCEPT ![t] = @ - 1]
  ELSE [x \in DOMAIN pending \ {t} |-> pending[x]]

SuspendedRelays == {t \in Suspended : t.op \in RelayEvents}

RECURSIVE CountRuns(_)
CountRuns(ts) ==
  IF ts = {} THEN 0
  ELSE LET t == CHOOSE x \in ts : TRUE IN pending[t] + CountRuns(ts \ {t})

\* The handler run the last step belongs to, and which part of it ran.
Op(phase, t) == [phase |-> phase, run |-> t]

Index(order, x) == CHOOSE i \in DOMAIN order : order[i] = x

Max(a, b) == IF a >= b THEN a ELSE b

\* The server takes one more event, sent by connection c.
TakeEvent(c) ==
  /\ connected[c]
  /\ handled < MaxOps
  /\ handled' = handled + 1
  /\ Index(ConnOrder, c) <= seenConns + 1
  /\ seenConns' = Max(seenConns, Index(ConnOrder, c))
  /\ UNCHANGED store

\* generateRoomId(): any id, a collision with a registered room included.
generateRoomId(roomId) ==
  /\ Index(RoomOrder, roomId) <= seenRooms + 1
  /\ seenRooms' = Max(seenRooms, Index(RoomOrder, roomId))
  /\ collided' = (collided \/ roomExists(roomId))

\* deleteRoom(roomId): the broadcast it makes, and the registry it leaves.
deleteRoomEmits(roomId) ==
  IF roomExists(roomId)
  THEN << Emit("room-dismissed", IoTo(roomId), [roomId |-> roomId, reason |-> "Room closed"]) >>
  ELSE << >>

deleteRoomUsers(roomId) ==
  IF roomExists(roomId) THEN MapDelete(roomUsers, roomId) ELSE roomUsers

deleteRoomDismissals(roomId) ==
  IF roomExists(roomId) THEN [dismissals EXCEPT ![roomId] = @ + 1] ELSE dismissals

----------------------------------------------------------------------------
\* Analytics

\* What a mongoose operation (create, exists, findOne, updateOne, save) does: it
\* resolves, or it is rejected.
StoreCall == IF store = "up" THEN "ok" ELSE "error"

\* An analytics function whose catch block throws the store error again.
TryCatch_Rethrows(outcome) == IF outcome = "error" THEN "threw" ELSE "returned"

\* try { await <store calls> } catch (error) { console.error(...) }: the function
\* returns normally whether the store call resolved or was rejected.
TryCatch(outcome) == IF outcome = "error" THEN "returned" ELSE "returned"

trackRoomCreated == TryCatch(StoreCall)

trackRoomJoined == TryCatch(StoreCall)

trackUserLeft == TryCatch(StoreCall)

trackSignalingEvent == TryCatch(StoreCall)

\* `await f()` when f threw: the handler run ends there, with nothing after it done.
Rejected(t) ==
  /\ emitted' = << >>
  /\ lastOp' = Op("abort", t)
  /\ UNCHANGED <<roomUsers, userRoomMap, sockRooms, connected, dismissals>>

----------------------------------------------------------------------------
\* The state after the module is loaded, whatever the store does.
InitServer ==
  /\ handled = 0
  /\ roomUsers = << >>
  /\ userRoomMap = << >>
  /\ sockRooms = [r \in RoomIds |-> {}]
  /\ connected = [c \in Conns |-> TRUE]
  /\ pending = << >>
  /\ emitted = << >>
  /\ lastOp = Op(None, Task(None, None, None, 0, None))
  /\ dismissals = [r \in RoomIds |-> 0]
  /\ seenConns = 0
  /\ seenRooms = 0
  /\ collided = FALSE
  /\ arrivals = << >>

\* A day without a DailyStats document.
NoDoc ==
  [exists |-> FALSE, version |-> 0, roomsCreated |-> 0, roomsCompleted |-> 0,
   hourlyBreakdown |-> << >>]

\* No analytics call is followed step by step.
StatsIdle ==
  /\ dailyStats = NoDoc
  /\ roomEvents = 0
  /\ calls = << >>
  /\ day0 = NoDoc
  /\ closed0 = 0

\* A sessionId without a TransferSession document.
NoSession ==
  [exists |-> FALSE, roomId |-> None, status |-> None, totalBytes |-> 0,
   receiverId |-> None, offers |-> 0, answers |-> 0, iceCandidates |-> 0]

\* No transfer event is followed step by step.
SessionsIdle ==
  /\ sessions = << >>
  /\ runs = {}
  /\ transferOps = 0
  /\ counted = << >>

\* mongoose.connect succeeded and the store answers.
\* The count-based server is not followed.
CountIdle ==
  /\ roomOccupancy = << >>
  /\ socketRooms = << >>
  /\ offline = {}
  /\ leaving = {}
  /\ countOps = 0
  /\ overlap = FALSE

Init == InitServer /\ store = "up" /\ StatsIdle /\ SessionsIdle /\ CountIdle

\* The store is unreachable for good: every operation on it is rejected.
InitStoreDown == InitServer /\ store = "down" /\ StatsIdle /\ SessionsIdle /\ CountIdle

\* create-room up to its await: register the room with the creator alone.
CreateRoom(c, roomId) ==
  /\ TakeEvent(c)
  /\ generateRoomId(roomId)
  /\ roomUsers' = MapSet(roomUsers, roomId, {c})
  /\ userRoomMap' = MapSet(userRoomMap, c, roomId)
  /\ sockRooms' = [sockRooms EXCEPT ![roomId] = @ \cup {c}]
  /\ pending' = Suspend(Task("create-room", c, roomId, 1, None))
  /\ emitted' = << >>
  /\ lastOp' = Op("start", Task("create-room", c, roomId, 1, None))
  /\ dismissals' = [dismissals EXCEPT ![roomId] = 0]
  /\ UNCHANGED connected

\* A create-room that acknowledges with the occupancy the room has by then.
CreateRoomResume_LiveOccupancy(t) ==
  /\ UNCHANGED <<handled, seenConns, seenRooms, collided, store>>
  /\ t \in Suspended /\ t.op = "create-room"
  /\ pending' = Resume(t)
  /\ IF trackRoomCreated = "returned"
     THEN /\ emitted' = << Emit("room-created", SocketSelf(t.conn),
                                [roomId |-> t.room, occupancy |-> getRoomOccupancy(t.room),
                                 capacity |-> MAX_ROOM_CAPACITY]) >>
          /\ lastOp' = Op("resume", t)
          /\ UNCHANGED <<roomUsers, userRoomMap, sockRooms, connected, dismissals>>
     ELSE Rejected(t)

\* create-room after trackRoomCreated returned.
CreateRoomResume(t) ==
  /\ UNCHANGED <<handled, seenConns, seenRooms, collided, store>>
  /\ t \in Suspended /\ t.op = "create-room"
  /\ pending' = Resume(t)
  /\ IF trackRoomCreated = "returned"
     THEN /\ emitted' = << Emit("room-created", SocketSelf(t.conn),
                                [roomId |-> t.room, occupancy |-> 1, capacity |-> MAX_ROOM_CAPACITY]) >>
          /\ lastOp' = Op("resume", t)
          /\ UNCHANGED <<roomUsers, userRoomMap, sockRooms, connected, dismissals>>
     ELSE Rejected(t)

\* A join-room that opens the room it does not find.
JoinRoomNotFound_OpensRoom(c, roomId) ==
  /\ ~roomExists(roomId)
  /\ roomUsers' = MapSet(roomUsers, roomId, {c})
  /\ userRoomMap' = MapSet(userRoomMap, c, roomId)
  /\ sockRooms' = [sockRooms EXCEPT ![roomId] = @ \cup {c}]
  /\ emitted' = << Emit("error", SocketSelf(c), [code |-> "ROOM_NOT_FOUND"]) >>
  /\ lastOp' = Op("start", Task("join-room", c, roomId, 0, None))
  /\ UNCHANGED <<connected, pending, dismissals>>

\* join-room, room not registered: error to the requester, then return.
JoinRoomNotFound(c, roomId) ==
  /\ ~roomExists(roomId)
  /\ emitted' = << Emit("error", SocketSelf(c), [code |-> "ROOM_NOT_FOUND"]) >>
  /\ lastOp' = Op("start", Task("join-room", c, roomId, 0, None))
  /\ UNCHANGED <<roomUsers, userRoomMap, sockRooms, connected, pending, dismissals>>

\* join-room, isRoomFull: room-full and error to the requester, then return.
JoinRoomFull(c, roomId) ==
  /\ roomExists(roomId)
  /\ isRoomFull(roomId)
  /\ emitted' = << Emit("room-full", SocketSelf(c),
                        [roomId |-> roomId, occupancy |-> getRoomOccupancy(roomId),
                         capacity |-> MAX_ROOM_CAPACITY]),
                   Emit("error", SocketSelf(c), [code |-> "ROOM_FULL"]) >>
  /\ lastOp' = Op("start", Task("join-room", c, roomId, getRoomOccupancy(roomId), None))
  /\ UNCHANGED <<roomUsers, userRoomMap, sockRooms, connected, pending, dismissals>>

\* join-room, admitted: add the member, then await trackRoomJoined.
JoinRoomAdmit(c, roomId) ==
  /\ roomExists(roomId)
  /\ ~isRoomFull(roomId)
  /\ LET members == roomUsers[roomId] \cup {c}
         t == Task("join-room", c, roomId, Cardinality(members), None)
     IN /\ roomUsers' = [roomUsers EXCEPT ![roomId] = members]
        /\ userRoomMap' = MapSet(userRoomMap, c, roomId)
        /\ sockRooms' = [sockRooms EXCEPT ![roomId] = @ \cup {c}]
        /\ pending' = Suspend(t)
        /\ lastOp' = Op("start", t)
  /\ emitted' = << >>
  /\ UNCHANGED <<connected, dismissals>>

JoinRoom(c, roomId) ==
  /\ TakeEvent(c)
  /\ UNCHANGED <<seenRooms, collided>>
  /\ \/ JoinRoomNotFound(c, roomId)
     \/ JoinRoomFull(c, roomId)
     \/ JoinRoomAdmit(c, roomId)

\* A join-room continuation that broadcasts room-full before notifying the members.
JoinRoomResume_FullFirst(t) ==
  /\ UNCHANGED <<handled, seenConns, seenRooms, collided, store>>
  /\ t \in Suspended /\ t.op = "join-room"
  /\ pending' = Resume(t)
  /\ IF trackRoomJoined = "returned"
     THEN /\ emitted' =
               (IF isRoomFull(t.room)
                THEN << Emit("room-full", IoTo(t.room), [roomId |-> t.room, occupancy |-> t.occ]) >>
                ELSE << >>)
               \o << Emit("user-joined", SocketTo(t.room, t.conn),
                          [userId |-> t.conn, occupancy |-> t.occ, capacity |-> MAX_ROOM_CAPACITY,
                           isFull |-> isRoomFull(t.room)]),
                     Emit("room-joined", SocketSelf(t.conn),
                          [roomId |-> t.room, occupancy |-> t.occ, capacity |-> MAX_ROOM_CAPACITY,
                           isFull |-> isRoomFull(t.room)]) >>
          /\ lastOp' = Op("resume", t)
          /\ UNCHANGED <<roomUsers, userRoomMap, sockRooms, connected, dismissals>>
     ELSE Rejected(t)

\* join-room after trackRoomJoined returned: the notifications.
JoinRoomResume(t) ==
  /\ UNCHANGED <<handled, seenConns, seenRooms, collided, store>>
  /\ t \in Suspended /\ t.op = "join-room"
  /\ pending' = Resume(t)
  /\ IF trackRoomJoined = "returned"
     THEN /\ emitted' =
               << Emit("user-joined", SocketTo(t.room, t.conn),
                       [userId |-> t.conn, occupancy |-> t.occ, capacity |-> MAX_ROOM_CAPACITY,
                        isFull |-> isRoomFull(t.room)]),
                  Emit("room-joined", SocketSelf(t.conn),
                       [roomId |-> t.room, occupancy |-> t.occ, capacity |-> MAX_ROOM_CAPACITY,
                        isFull |-> isRoomFull(t.room)]) >>
               \o (IF isRoomFull(t.room)
                   THEN << Emit("room-full", IoTo(t.room), [roomId |-> t.room, occupancy |-> t.occ]) >>
                   ELSE << >>)
          /\ lastOp' = Op("resume", t)
          /\ UNCHANGED <<roomUsers, userRoomMap, sockRooms, connected, dismissals>>
     ELSE Rejected(t)

\* The branch leave-room and disconnecting take: the caller is mapped to a registered room.
InRegisteredRoom(c) ==
  /\ c \in DOMAIN userRoomMap
  /\ roomExists(userRoomMap[c])

\* leave-room: roomUserSet.delete(socket.id), when the caller is mapped to a registered room.
LeaveUsers(c) ==
  IF InRegisteredRoom(c)
  THEN [roomUsers EXCEPT ![userRoomMap[c]] = @ \ {c}]
  ELSE roomUsers

\* leave-room: userRoomMap.delete(socket.id), when the caller is mapped to a registered room.
LeaveUserRoomMap(c) ==
  IF InRegisteredRoom(c) THEN MapDelete(userRoomMap, c) ELSE userRoomMap

\* A leave-room that acknowledges the caller with room-left also when it is in no room.
LeaveRoom_AcksOutsider(c) ==
  /\ TakeEvent(c)
  /\ UNCHANGED <<seenRooms, collided>>
  /\ roomUsers' = LeaveUsers(c)
  /\ userRoomMap' = LeaveUserRoomMap(c)
  /\ IF InRegisteredRoom(c)
     THEN LET roomId == userRoomMap[c]
              members == roomUsers[roomId] \ {c}
              t == Task("leave-room", c, roomId, Cardinality(members), None)
          IN /\ sockRooms' = [sockRooms EXCEPT ![roomId] = @ \ {c}]
             /\ pending' = Suspend(t)
             /\ lastOp' = Op("start", t)
             /\ emitted' = << >>
     ELSE /\ lastOp' = Op("start", Task("leave-room", c, MapGet(userRoomMap, c), 0, None))
          /\ emitted' = << Emit("room-left", SocketSelf(c), [roomId |-> MapGet(userRoomMap, c)]) >>
          /\ UNCHANGED <<sockRooms, pending>>
  /\ UNCHANGED <<connected, dismissals>>

\* leave-room up to its await.
LeaveRoom(c) ==
  /\ TakeEvent(c)
  /\ UNCHANGED <<seenRooms, collided>>
  /\ roomUsers' = LeaveUsers(c)
  /\ userRoomMap' = LeaveUserRoomMap(c)
  /\ IF InRegisteredRoom(c)
     THEN LET roomId == userRoomMap[c]
              members == roomUsers[roomId] \ {c}
              t == Task("leave-room", c, roomId, Cardinality(members), None)
          IN /\ sockRooms' = [sockRooms EXCEPT ![roomId] = @ \ {c}]
             /\ pending' = Suspend(t)
             /\ lastOp' = Op("start", t)
     ELSE /\ lastOp' = Op("start", Task("leave-room", c, MapGet(userRoomMap, c), 0, None))
          /\ UNCHANGED <<sockRooms, pending>>
  /\ emitted' = << >>
  /\ UNCHANGED <<connected, dismissals>>

\* A departure that reports the occupancy the room has when the notification is sent.
DepartureEmits_LiveOccupancy(t) ==
  IF t.occ = 0
  THEN deleteRoomEmits(t.room)
  ELSE << Emit("user-left", SocketTo(t.room, t.conn),
               [userId |-> t.conn, occupancy |-> getRoomOccupancy(t.room),
                capacity |-> MAX_ROOM_CAPACITY]) >>

\* What leave-room and disconnecting do with remainingOccupancy after trackUserLeft returned.
DepartureEmits(t) ==
  IF t.occ = 0
  THEN deleteRoomEmits(t.room)
  ELSE << Emit("user-left", SocketTo(t.room, t.conn),
               [userId |-> t.conn, occupancy |-> t.occ, capacity |-> MAX_ROOM_CAPACITY]) >>

DepartureUsers(t) == IF t.occ = 0 THEN deleteRoomUsers(t.room) ELSE roomUsers

DepartureDismissals(t) == IF t.occ = 0 THEN deleteRoomDismissals(t.room) ELSE dismissals

\* A leave-room that acknowledges the leaver only when other members remain.
LeaveRoomResume_NoAckOnDismiss(t) ==
  /\ UNCHANGED <<handled, seenConns, seenRooms, collided, store>>
  /\ t \in Suspended /\ t.op = "leave-room"
  /\ pending' = Resume(t)
  /\ IF trackUserLeft = "returned"
     THEN /\ roomUsers' = DepartureUsers(t)
          /\ dismissals' = DepartureDismissals(t)
          /\ emitted' = DepartureEmits(t)
                        \o (IF t.occ = 0 THEN << >>
                            ELSE << Emit("room-left", SocketSelf(t.conn), [roomId |-> t.room]) >>)
          /\ lastOp' = Op("resume", t)
          /\ UNCHANGED <<userRoomMap, sockRooms, connected>>
     ELSE Rejected(t)

\* leave-room after trackUserLeft returned.
LeaveRoomResume(t) ==
  /\ UNCHANGED <<handled, seenConns, seenRooms, collided, store>>
  /\ t \in Suspended /\ t.op = "leave-room"
  /\ pending' = Resume(t)
  /\ IF trackUserLeft = "returned"
     THEN /\ roomUsers' = DepartureUsers(t)
          /\ dismissals' = DepartureDismissals(t)
          /\ emitted' = DepartureEmits(t)
                        \o << Emit("room-left", SocketSelf(t.conn), [roomId |-> t.room]) >>
          /\ lastOp' = Op("resume", t)
          /\ UNCHANGED <<userRoomMap, sockRooms, connected>>
     ELSE Rejected(t)

\* A teardown that cleans up by scanning every member set for the socket.
DisconnectUsers_ScanAllRooms(c) == [r \in DOMAIN roomUsers |-> roomUsers[r] \ {c}]

\* The registry after the disconnecting and disconnect handlers of c: c leaves the
\* member set of the room it is mapped to, when that room is registered.
DisconnectUsers(c) ==
  IF InRegisteredRoom(c)
  THEN [roomUsers EXCEPT ![userRoomMap[c]] = @ \ {c}]
  ELSE roomUsers

\* disconnecting deletes the entry of a caller mapped to a registered room, and
\* the disconnect handler deletes whatever entry is left.
DisconnectUserRoomMap(c) == MapDelete(userRoomMap, c)

\* Transport teardown: socket.io runs the disconnecting handler up to its await,
\* takes the socket out of every room, and runs the disconnect handler.
Disconnect(c) ==
  /\ TakeEvent(c)
  /\ UNCHANGED <<seenRooms, collided>>
  /\ roomUsers' = DisconnectUsers(c)
  /\ IF InRegisteredRoom(c)
     THEN LET roomId == userRoomMap[c]
              t == Task("disconnecting", c, roomId, Cardinality(roomUsers[roomId] \ {c}), None)
          IN /\ pending' = Suspend(t)
             /\ lastOp' = Op("start", t)
     ELSE /\ lastOp' = Op("start", Task("disconnecting", c, MapGet(userRoomMap, c), 0, None))
          /\ UNCHANGED pending
  /\ userRoomMap' = DisconnectUserRoomMap(c)
  /\ sockRooms' = [r \in RoomIds |-> sockRooms[r] \ {c}]
  /\ connected' = [connected EXCEPT ![c] = FALSE]
  /\ emitted' = << >>
  /\ UNCHANGED dismissals

\* disconnecting after trackUserLeft returned.
DisconnectingResume(t) ==
  /\ UNCHANGED <<handled, seenConns, seenRooms, collided, store>>
  /\ t \in Suspended /\ t.op = "disconnecting"
  /\ pending' = Resume(t)
  /\ IF trackUserLeft = "returned"
     THEN /\ roomUsers' = DepartureUsers(t)
          /\ dismissals' = DepartureDismissals(t)
          /\ emitted' = DepartureEmits(t)
          /\ lastOp' = Op("resume", t)
          /\ UNCHANGED <<userRoomMap, sockRooms, connected>>
     ELSE Rejected(t)

\* offer / answer / ice-candidate up to the await on trackSignalingEvent.
Relay(c, event, roomId, payload) ==
  /\ TakeEvent(c)
  /\ CountRuns(SuspendedRelays) < MaxRelays
  /\ UNCHANGED <<seenRooms, collided>>
  /\ pending' = Suspend(Task(event, c, roomId, 0, payload))
  /\ emitted' = << >>
  /\ lastOp' = Op("start", Task(event, c, roomId, 0, payload))
  /\ UNCHANGED <<roomUsers, userRoomMap, sockRooms, connected, dismissals>>

\* offer / answer / ice-candidate after trackSignalingEvent returned: forward.
RelayResume(t) ==
  /\ UNCHANGED <<handled, seenConns, seenRooms, collided, store>>
  /\ t \in Suspended /\ t.op \in RelayEvents
  /\ pending' = Resume(t)
  /\ IF trackSignalingEvent = "returned"
     THEN /\ emitted' = << Emit(t.op, SocketTo(t.room, t.conn), [payload |-> t.payload]) >>
          /\ lastOp' = Op("resume", t)
          /\ UNCHANGED <<roomUsers, userRoomMap, sockRooms, connected, dismissals>>
     ELSE Rejected(t)

\* GET /api/analytics/active-rooms: the rooms array of the response, by room id.
activeRooms ==
  [roomId \in DOMAIN roomUsers |->
     [id |-> roomId,
      userCount |-> Cardinality(roomUsers[roomId]),
      capacity |-> MAX_ROOM_CAPACITY,
      isFull |-> Cardinality(roomUsers[roomId]) >= MAX_ROOM_CAPACITY]]

Next ==
  \/ \E c \in Conns, r \in RoomIds : CreateRoom(c, r) /\ UNCHANGED <<arrivals, statsVars, sessionVars, countVars>>
  \/ \E t \in Suspended : CreateRoomResume(t) /\ UNCHANGED <<arrivals, statsVars, sessionVars, countVars>>
  \/ \E c \in Conns, r \in RoomArgs : JoinRoom(c, r) /\ UNCHANGED <<arrivals, statsVars, sessionVars, countVars>>
  \/ \E t \in Suspended : JoinRoomResume(t) /\ UNCHANGED <<arrivals, statsVars, sessionVars, countVars>>
  \/ \E c \in Conns : LeaveRoom(c) /\ UNCHANGED <<arrivals, statsVars, sessionVars, countVars>>
  \/ \E t \in Suspended : LeaveRoomResume(t) /\ UNCHANGED <<arrivals, statsVars, sessionVars, countVars>>
  \/ \E c \in Conns : Disconnect(c) /\ UNCHANGED <<arrivals, statsVars, sessionVars, countVars>>
  \/ \E t \in Suspended : DisconnectingResume(t) /\ UNCHANGED <<arrivals, statsVars, sessionVars, countVars>>
  \/ \E c \in Conns, i \in RelayInputs, r \in RoomArgs :
       Relay(c, i.event, r, i.payload) /\ UNCHANGED <<arrivals, statsVars, sessionVars, countVars>>
  \/ \E t \in Suspended : RelayResume(t) /\ UNCHANGED <<arrivals, statsVars, sessionVars, countVars>>

Spec == Init /\ [][Next]_vars

\* Every analytics function catches what its store calls throw and returns, so a
\* handler suspended on one is resumed once the store call settles.
Fairness ==
  /\ WF_vars(\E t \in Suspended : CreateRoomResume(t) /\ UNCHANGED <<arrivals, statsVars, sessionVars, countVars>>)
  /\ WF_vars(\E t \in Suspended : JoinRoomResume(t) /\ UNCHANGED <<arrivals, statsVars, sessionVars, countVars>>)
  /\ WF_vars(\E t \in Suspended : LeaveRoomResume(t) /\ UNCHANGED <<arrivals, statsVars, sessionVars, countVars>>)
  /\ WF_vars(\E t \in Suspended : DisconnectingResume(t) /\ UNCHANGED <<arrivals, statsVars, sessionVars, countVars>>)
  /\ WF_vars(\E t \in Suspended : RelayResume(t) /\ UNCHANGED <<arrivals, statsVars, sessionVars, countVars>>)

FairSpec == Spec /\ Fairness

\* The server with the store unreachable from the start.
StoreDownSpec == InitStoreDown /\ [][Next]_vars /\ Fairness

----------------------------------------------------------------------------
\* The same handlers, with the arrival order of the suspended runs recorded.

\* The position of the oldest suspended run that holds the locals t.
FirstOf(t) ==
  CHOOSE i \in DOMAIN arrivals : arrivals[i] = t /\ \A j \in 1..(i - 1) : arrivals[j] # t

Without(i) == SubSeq(arrivals, 1, i - 1) \o SubSeq(arrivals, i + 1, Len(arrivals))

\* A handler that suspends joins the end of the arrival order.
Arrive == arrivals' = IF pending' = pending THEN arrivals ELSE Append(arrivals, lastOp'.run)

\* A continuation takes its run out of the arrival order.
Settle(t) == arrivals' = Without(FirstOf(t))

NextOrdered ==
  \/ \E c \in Conns, r \in RoomIds : CreateRoom(c, r) /\ Arrive /\ UNCHANGED <<statsVars, sessionVars, countVars>>
  \/ \E t \in Suspended : CreateRoomResume(t) /\ Settle(t) /\ UNCHANGED <<statsVars, sessionVars, countVars>>
  \/ \E c \in Conns, r \in RoomArgs : JoinRoom(c, r) /\ Arrive /\ UNCHANGED <<statsVars, sessionVars, countVars>>
  \/ \E t \in Suspended : JoinRoomResume(t) /\ Settle(t) /\ UNCHANGED <<statsVars, sessionVars, countVars>>
  \/ \E c \in Conns : LeaveRoom(c) /\ Arrive /\ UNCHANGED <<statsVars, sessionVars, countVars>>
  \/ \E t \in Suspended : LeaveRoomResume(t) /\ Settle(t) /\ UNCHANGED <<statsVars, sessionVars, countVars>>
  \/ \E c \in Conns : Disconnect(c) /\ Arrive /\ UNCHANGED <<statsVars, sessionVars, countVars>>
  \/ \E t \in Suspended : DisconnectingResume(t) /\ Settle(t) /\ UNCHANGED <<statsVars, sessionVars, countVars>>
  \/ \E c \in Conns, i \in RelayInputs, r \in RoomArgs :
       Relay(c, i.event, r, i.payload) /\ Arrive /\ UNCHANGED <<statsVars, sessionVars, countVars>>
  \/ \E t \in Suspended : RelayResume(t) /\ Settle(t) /\ UNCHANGED <<statsVars, sessionVars, countVars>>

OrderSpec == Init /\ [][NextOrdered]_vars

----------------------------------------------------------------------------
\* The usage counters and the room-closed events in the store, under concurrent
\* analytics calls.  Each call is followed from one store operation to the next:
\* the code between two awaits runs without interruption, and the store applies
\* each operation on a document atomically.

Calls == 1..MaxCalls

\* The functions a call runs, with the store operation each awaits first.
FirstAwait ==
  [incrementDailyStat |-> "updateOne", incrementHourlyStat |-> "findOne",
   trackRoomClosed |-> "exists"]

\* A call: its function, the await it has reached, the document it holds in memory
\* (stats) and the update its save() will send.
Call(fn, pc, stats, op) == [fn |-> fn, pc |-> pc, stats |-> stats, op |-> op]

\* An updateOne that writes the amount over the counter.
updateOne_SetsField(doc, field, amount) ==
  IF doc.exists
  THEN [doc EXCEPT ![field] = amount]
  ELSE [NoDoc EXCEPT !.exists = TRUE, ![field] = amount]

\* DailyStats.updateOne({date}, {$inc: {[field]: amount}, $setOnInsert: {date}},
\* {upsert: true}): one atomic operation of the store on the day's document.
updateOne(doc, field, amount) ==
  IF doc.exists
  THEN [doc EXCEPT ![field] = @ + amount]
  ELSE [NoDoc EXCEPT !.exists = TRUE, ![field] = amount]

\* hourlyBreakdown holds the buckets of the current hour (their counter for the
\* field, in array order); findIndex finds the first of them.
HourCounter(doc) == IF doc.hourlyBreakdown = << >> THEN 0 ELSE doc.hourlyBreakdown[1]

\* The in-memory update of the hour bucket: push a bucket, or add to the one found.
Bump(stats) ==
  IF stats.hourlyBreakdown = << >>
  THEN [stats EXCEPT !.hourlyBreakdown = << 1 >>]
  ELSE [stats EXCEPT !.hourlyBreakdown[1] = @ + 1]

\* What stats.save() then sends: $push of the new bucket, or $set of the counter.
SaveOp(stats) == IF stats.hourlyBreakdown = << >> THEN "$push" ELSE "$set"

Finish(i) == calls' = [calls EXCEPT ![i].pc = "done"]

\* incrementDailyStat: its one store operation.
IncrementDailyStat(i) ==
  /\ calls[i].fn = "incrementDailyStat" /\ calls[i].pc = "updateOne"
  /\ dailyStats' = updateOne(dailyStats, "roomsCreated", 1)
  /\ Finish(i)
  /\ UNCHANGED <<roomEvents, day0, closed0>>

\* incrementHourlyStat: findOne returns, and (when it found the document) the
\* bucket is updated in memory up to the await on save().
HourlyFindOne(i) ==
  /\ calls[i].fn = "incrementHourlyStat" /\ calls[i].pc = "findOne"
  /\ calls' = [calls EXCEPT ![i] =
                 IF dailyStats.exists
                 THEN Call(@.fn, "save", Bump(dailyStats), SaveOp(dailyStats))
                 ELSE Call(@.fn, "create", NoDoc, "none")]
  /\ UNCHANGED <<dailyStats, roomEvents, day0, closed0>>

\* incrementHourlyStat: DailyStats.create returns (or is rejected by the unique index
\* on date, which ends the call in its catch block), then the bucket is pushed in memory.
HourlyCreate(i) ==
  /\ calls[i].fn = "incrementHourlyStat" /\ calls[i].pc = "create"
  /\ IF dailyStats.exists
     THEN /\ Finish(i)
          /\ UNCHANGED dailyStats
     ELSE LET created == [NoDoc EXCEPT !.exists = TRUE]
          IN /\ dailyStats' = created
             /\ calls' = [calls EXCEPT ![i] = Call(@.fn, "save", Bump(created), SaveOp(created))]
  /\ UNCHANGED <<roomEvents, day0, closed0>>

\* incrementHourlyStat: stats.save() sends the modified path only: the pushed bucket
\* (which also increments the version key), or the counter value computed in memory,
\* conditional on the version key read (a mismatch is a VersionError: caught).
HourlySave(i) ==
  /\ calls[i].fn = "incrementHourlyStat" /\ calls[i].pc = "save"
  /\ dailyStats' =
       IF calls[i].op = "$push"
       THEN [dailyStats EXCEPT !.hourlyBreakdown = Append(@, 1), !.version = @ + 1]
       ELSE IF dailyStats.version = calls[i].stats.version
            THEN [dailyStats EXCEPT !.hourlyBreakdown[1] = calls[i].stats.hourlyBreakdown[1]]
            ELSE dailyStats
  /\ Finish(i)
  /\ UNCHANGED <<roomEvents, day0, closed0>>

\* trackRoomClosed: RoomEvent.exists returns; return if the room was closed today.
ClosedExists(i) ==
  /\ calls[i].fn = "trackRoomClosed" /\ calls[i].pc = "exists"
  /\ calls' = [calls EXCEPT ![i].pc = IF roomEvents > 0 THEN "done" ELSE "create"]
  /\ UNCHANGED <<dailyStats, roomEvents, day0, closed0>>

\* trackRoomClosed: RoomEvent.create of the 'closed' event.
ClosedCreate(i) ==
  /\ calls[i].fn = "trackRoomClosed" /\ calls[i].pc = "create"
  /\ roomEvents' = roomEvents + 1
  /\ calls' = [calls EXCEPT ![i].pc = "incrementDailyStat"]
  /\ UNCHANGED <<dailyStats, day0, closed0>>

\* trackRoomClosed: incrementDailyStat('roomsCompleted').
ClosedIncrement(i) ==
  /\ calls[i].fn = "trackRoomClosed" /\ calls[i].pc = "incrementDailyStat"
  /\ dailyStats' = updateOne(dailyStats, "roomsCompleted", 1)
  /\ Finish(i)
  /\ UNCHANGED <<roomEvents, day0, closed0>>

\* The day's document before the calls: none, one without a bucket for the hour,
\* or one with it.
Day0Docs ==
  { NoDoc,
    [NoDoc EXCEPT !.exists = TRUE, !.roomsCreated = 1],
    [NoDoc EXCEPT !.exists = TRUE, !.roomsCreated = 1, !.roomsCompleted = 1,
                  !.version = 1, !.hourlyBreakdown = << 1 >>] }

InitStats ==
  /\ InitServer
  /\ store = "up"
  /\ dailyStats \in Day0Docs
  /\ day0 = dailyStats
  /\ roomEvents \in {0, 1}
  /\ closed0 = roomEvents
  /\ calls \in [Calls -> {Call(fn, FirstAwait[fn], NoDoc, "none") : fn \in DOMAIN FirstAwait}]
  /\ SessionsIdle
  /\ CountIdle

NextStats ==
  \/ \E i \in Calls : IncrementDailyStat(i) /\ UNCHANGED <<serverVars, sessionVars, countVars>>
  \/ \E i \in Calls : HourlyFindOne(i) /\ UNCHANGED <<serverVars, sessionVars, countVars>>
  \/ \E i \in Calls : HourlyCreate(i) /\ UNCHANGED <<serverVars, sessionVars, countVars>>
  \/ \E i \in Calls : HourlySave(i) /\ UNCHANGED <<serverVars, sessionVars, countVars>>
  \/ \E i \in Calls : ClosedExists(i) /\ UNCHANGED <<serverVars, sessionVars, countVars>>
  \/ \E i \in Calls : ClosedCreate(i) /\ UNCHANGED <<serverVars, sessionVars, countVars>>
  \/ \E i \in Calls : ClosedIncrement(i) /\ UNCHANGED <<serverVars, sessionVars, countVars>>

StatsSpec == InitStats /\ [][NextStats]_vars

----------------------------------------------------------------------------
\* The TransferSession documents under the transfer events, data-transfer and the
\* signaling counts.  A handler run is followed from one store operation to the
\* next; the store applies each operation atomically.

\* The {roomId, sessionId} pairs clients send: one session id per room.
SessionInputs ==
  { [roomId |-> "R1", sessionId |-> "s1"], [roomId |-> "R2", sessionId |-> "s2"] }

\* The sessionId `${roomId}-${Date.now()}` of the minimal record data-transfer
\* creates for a room (one per room: a later one is a document of the same content).
MinimalId == [R1 |-> "R1-now", R2 |-> "R2-now"]

SessionIds == {i.sessionId : i \in SessionInputs} \cup {MinimalId[r] : r \in DOMAIN MinimalId}

\* The reasons clients send with transfer-failed.
Reasons == {"cancelled", "timeout"}

\* The totalBytes clients send with transfer-start.
StartBytes == {50}

\* The bytes clients send with data-transfer.
ByteCounts == {0, 100}

\* trackSignalingEvent(roomId, eventType): the counter `${eventType}s` names.
CounterField == [offer |-> "offers", answer |-> "answers", iceCandidate |-> "iceCandidates"]

Active == {"initiated", "transferring"}

\* A handler run: the event, the store operation it awaits, its arguments, and the
\* session findOne gave it.
Run(ev, pc, roomId, sessionId, arg) ==
  [ev |-> ev, pc |-> pc, roomId |-> roomId, sessionId |-> sessionId, arg |-> arg]

\* TransferSession.create({roomId, sessionId, totalBytes, status}): rejected by the
\* unique index on sessionId when the document exists (every caller catches that).
createSession(sessionId, roomId, totalBytes, status) ==
  IF sessions[sessionId].exists
  THEN sessions
  ELSE [sessions EXCEPT ![sessionId] =
          [NoSession EXCEPT !.exists = TRUE, !.roomId = roomId,
                            !.totalBytes = totalBytes, !.status = status]]

Updated(doc, updates) ==
  [f \in DOMAIN doc |-> IF f \in DOMAIN updates THEN updates[f] ELSE doc[f]]

\* updateTransferSession(sessionId, updates): findOneAndUpdate({sessionId}, updates),
\* whatever the status is; no document, no change.
updateTransferSession(sessionId, updates) ==
  IF sessions[sessionId].exists
  THEN [sessions EXCEPT ![sessionId] = Updated(@, updates)]
  ELSE sessions

\* A handler takes one more event and reaches its first store operation.
TransferEvent(run) ==
  /\ transferOps < MaxTransferOps
  /\ transferOps' = transferOps + 1
  /\ run \notin runs
  /\ runs' = runs \cup {run}
  /\ UNCHANGED sessions

Proceed(run, pc) ==
  /\ runs' = (runs \ {run}) \cup {[run EXCEPT !.pc = pc]}
  /\ UNCHANGED transferOps

Return(run) ==
  /\ runs' = runs \ {run}
  /\ UNCHANGED transferOps

\* transfer-start: createTransferSession, then updateTransferSession to 'transferring'.
TransferStart(inp, totalBytes) ==
  TransferEvent(Run("transfer-start", "create", inp.roomId, inp.sessionId, totalBytes))

TransferStartCreate(run) ==
  /\ run \in runs /\ run.ev = "transfer-start" /\ run.pc = "create"
  /\ sessions' = createSession(run.sessionId, run.roomId, 0, "initiated")
  /\ Proceed(run, "update")

TransferStartUpdate(run) ==
  /\ run \in runs /\ run.ev = "transfer-start" /\ run.pc = "update"
  /\ sessions' = updateTransferSession(run.sessionId,
                                        [totalBytes |-> run.arg, status |-> "transferring"])
  /\ Return(run)

\* incrementDailyStat(field, amount) called by a handler run for sessionId: the
\* $inc of the day's counter, kept by the session id the run names (none: not kept).
incrementDailyStat(sessionId, field, amount) ==
  IF sessionId = None
  THEN counted
  ELSE IF field = "transfersCompleted"
       THEN [counted EXCEPT ![sessionId].transfersCompleted = @ + amount]
       ELSE [counted EXCEPT ![sessionId].totalBytesTransferred = Append(@, amount)]

\* transfer-complete: findOne, return if there is no session, then update to
\* 'completed' with the receiver, then count the transfer and the bytes findOne read.
TransferComplete(inp) ==
  TransferEvent(Run("transfer-complete", "findOne", inp.roomId, inp.sessionId, None))

TransferCompleteFindOne(run) ==
  /\ run \in runs /\ run.ev = "transfer-complete" /\ run.pc = "findOne"
  /\ IF sessions[run.sessionId].exists
     THEN /\ runs' = (runs \ {run}) \cup
                       {[run EXCEPT !.pc = "update", !.arg = sessions[run.sessionId].totalBytes]}
          /\ UNCHANGED transferOps
     ELSE Return(run)
  /\ UNCHANGED <<sessions, counted>>

TransferCompleteUpdate(run) ==
  /\ run \in runs /\ run.ev = "transfer-complete" /\ run.pc = "update"
  /\ sessions' = updateTransferSession(run.sessionId,
                                        [status |-> "completed", receiverId |-> "socket"])
  /\ Proceed(run, "transfersCompleted")
  /\ UNCHANGED counted

\* transfer-complete: await incrementDailyStat('transfersCompleted'), then
\* await incrementDailyStat('totalBytesTransferred', session.totalBytes).
TransferCompleteCount(run) ==
  /\ run \in runs /\ run.ev = "transfer-complete"
  /\ \/ /\ run.pc = "transfersCompleted"
        /\ counted' = incrementDailyStat(run.sessionId, "transfersCompleted", 1)
        /\ Proceed(run, "totalBytesTransferred")
     \/ /\ run.pc = "totalBytesTransferred"
        /\ counted' = incrementDailyStat(run.sessionId, "totalBytesTransferred", run.arg)
        /\ Return(run)
  /\ UNCHANGED sessions

\* transfer-failed: update to 'cancelled' or 'failed' (the error it logs afterwards is
\* no part of the session).
TransferFailed(inp, reason) ==
  TransferEvent(Run("transfer-failed", "update", inp.roomId, inp.sessionId, reason))

TransferFailedUpdate(run) ==
  /\ run \in runs /\ run.ev = "transfer-failed" /\ run.pc = "update"
  /\ sessions' = updateTransferSession(run.sessionId,
       [status |-> IF run.arg = "cancelled" THEN "cancelled" ELSE "failed"])
  /\ Return(run)

\* data-transfer: recordDataTransferred returns at once for 0 bytes; otherwise it
\* counts the bytes and the transfer (and the hour's transfers, which are no part of
\* the day's two counters), then completes the session named, or, when none is named
\* or found, creates a minimal completed record.
DataTransfer(roomId, sessionId, bytes) ==
  IF bytes = 0
  THEN /\ transferOps < MaxTransferOps
       /\ transferOps' = transferOps + 1
       /\ UNCHANGED <<sessions, runs>>
  ELSE TransferEvent(Run("data-transfer", "totalBytesTransferred", roomId, sessionId, bytes))

\* data-transfer: await incrementDailyStat('totalBytesTransferred', amount), then
\* await incrementDailyStat('transfersCompleted', 1).
DataTransferCount(run) ==
  /\ run \in runs /\ run.ev = "data-transfer"
  /\ \/ /\ run.pc = "totalBytesTransferred"
        /\ counted' = incrementDailyStat(run.sessionId, "totalBytesTransferred", run.arg)
        /\ Proceed(run, "transfersCompleted")
     \/ /\ run.pc = "transfersCompleted"
        /\ counted' = incrementDailyStat(run.sessionId, "transfersCompleted", 1)
        /\ Proceed(run, IF run.sessionId = None THEN "create" ELSE "findOneAndUpdate")
  /\ UNCHANGED sessions

DataTransferUpdate(run) ==
  /\ run \in runs /\ run.ev = "data-transfer" /\ run.pc = "findOneAndUpdate"
  /\ sessions' = IF sessions[run.sessionId].exists
                 THEN [sessions EXCEPT ![run.sessionId].totalBytes = @ + run.arg,
                                       ![run.sessionId].status = "completed"]
                 ELSE sessions
  /\ IF sessions[run.sessionId].exists THEN Return(run) ELSE Proceed(run, "create")

DataTransferCreate(run) ==
  /\ run \in runs /\ run.ev = "data-transfer" /\ run.pc = "create"
  /\ sessions' = createSession(MinimalId[run.roomId], run.roomId, run.arg, "completed")
  /\ Return(run)

\* The session trackSignalingEvent's findOne returns for the room: the active one
\* (clients name one session id per room, so the sort by startTime has one candidate).
ActiveSessions(roomId) ==
  {id \in SessionIds : sessions[id].exists /\ sessions[id].roomId = roomId
                          /\ sessions[id].status \in Active}

\* trackSignalingEvent(roomId, eventType), awaited by the offer / answer /
\* ice-candidate handlers: findOne of the room's active session, then updateOne by _id.
SignalingEvent(roomId, eventType) ==
  TransferEvent(Run(eventType, "findOne", roomId, None, None))

SignalingFindOne(run) ==
  /\ run \in runs /\ run.ev \in DOMAIN CounterField /\ run.pc = "findOne"
  /\ IF ActiveSessions(run.roomId) = {}
     THEN Return(run)
     ELSE \E id \in ActiveSessions(run.roomId) :
            /\ runs' = (runs \ {run}) \cup {[run EXCEPT !.pc = "updateOne", !.sessionId = id]}
            /\ UNCHANGED transferOps
  /\ UNCHANGED sessions

\* TransferSession.updateOne({_id}, {$inc: {[`signalingEventsCount.${eventType}s`]: 1}}).
countEvent(id, field) == [sessions EXCEPT ![id][field] = @ + 1]

SignalingUpdateOne(run) ==
  /\ run \in runs /\ run.ev \in DOMAIN CounterField /\ run.pc = "updateOne"
  /\ sessions' = countEvent(run.sessionId, CounterField[run.ev])
  /\ Return(run)

InitSessions ==
  /\ InitServer
  /\ store = "up"
  /\ StatsIdle
  /\ sessions = [id \in SessionIds |-> NoSession]
  /\ runs = {}
  /\ transferOps = 0
  /\ counted = [id \in {inp.sessionId : inp \in SessionInputs} |->
                  [transfersCompleted |-> 0, totalBytesTransferred |-> << >>]]
  /\ CountIdle

NextSessions ==
  \/ \E inp \in SessionInputs, totalBytes \in StartBytes :
       TransferStart(inp, totalBytes) /\ UNCHANGED <<serverVars, statsVars, countVars, counted>>
  \/ \E run \in runs : TransferStartCreate(run) /\ UNCHANGED <<serverVars, statsVars, countVars, counted>>
  \/ \E run \in runs : TransferStartUpdate(run) /\ UNCHANGED <<serverVars, statsVars, countVars, counted>>
  \/ \E inp \in SessionInputs : TransferComplete(inp) /\ UNCHANGED <<serverVars, statsVars, countVars, counted>>
  \/ \E run \in runs : TransferCompleteFindOne(run) /\ UNCHANGED <<serverVars, statsVars, countVars>>
  \/ \E run \in runs : TransferCompleteUpdate(run) /\ UNCHANGED <<serverVars, statsVars, countVars>>
  \/ \E run \in runs : TransferCompleteCount(run) /\ UNCHANGED <<serverVars, statsVars, countVars>>
  \/ \E inp \in SessionInputs, reason \in Reasons :
       TransferFailed(inp, reason) /\ UNCHANGED <<serverVars, statsVars, countVars, counted>>
  \/ \E run \in runs : TransferFailedUpdate(run) /\ UNCHANGED <<serverVars, statsVars, countVars, counted>>
  \/ \E inp \in SessionInputs : \E sid \in {inp.sessionId, None}, bytes \in ByteCounts :
       DataTransfer(inp.roomId, sid, bytes) /\ UNCHANGED <<serverVars, statsVars, countVars, counted>>
  \/ \E run \in runs : DataTransferCount(run) /\ UNCHANGED <<serverVars, statsVars, countVars>>
  \/ \E run \in runs : DataTransferUpdate(run) /\ UNCHANGED <<serverVars, statsVars, countVars, counted>>
  \/ \E run \in runs : DataTransferCreate(run) /\ UNCHANGED <<serverVars, statsVars, countVars, counted>>
  \/ \E r \in RoomIds, e \in DOMAIN CounterField :
       SignalingEvent(r, e) /\ UNCHANGED <<serverVars, statsVars, countVars, counted>>
  \/ \E run \in runs : SignalingFindOne(run) /\ UNCHANGED <<serverVars, statsVars, countVars, counted>>
  \/ \E run \in runs : SignalingUpdateOne(run) /\ UNCHANGED <<serverVars, statsVars, countVars, counted>>

SessionSpec == InitSessions /\ [][NextSessions]_vars

----------------------------------------------------------------------------
\* The count-based server: a room is a number of users.  Its create-room and
\* join-room continuations only emit and touch no count; they are left out.

\* The sockets joined to roomId (a disconnected socket is in no room).
JoinedSockets(roomId) ==
  {c \in Conns : \E i \in DOMAIN socketRooms[c] : socketRooms[c][i] = roomId}

\* socket.join(roomId): socket.rooms is a Set, a second join of a room adds nothing.
socketJoin(c, roomId) ==
  IF c \in JoinedSockets(roomId)
  THEN socketRooms
  ELSE [socketRooms EXCEPT ![c] = Append(@, roomId)]

CountEvent(c) ==
  /\ c \notin offline
  /\ countOps < MaxCountOps
  /\ countOps' = countOps + 1

\* create-room: socket.join(roomId); roomOccupancy.set(roomId, 1), whatever id
\* generateRoomId drew.
CountCreateRoom(c, roomId) ==
  /\ CountEvent(c)
  /\ socketRooms' = socketJoin(c, roomId)
  /\ roomOccupancy' = MapSet(roomOccupancy, roomId, 1)
  /\ overlap' = (overlap \/ roomId \in DOMAIN roomOccupancy)
  /\ UNCHANGED <<offline, leaving>>

\* roomOccupancy.get(roomId) || 0
roomSize(roomId) == IF roomId \in DOMAIN roomOccupancy THEN roomOccupancy[roomId] ELSE 0

\* join-room: rejected for a room of size 0 or of size >= 2; otherwise
\* socket.join(roomId); roomOccupancy.set(roomId, roomSize + 1).
CountJoinRoom(c, roomId) ==
  /\ CountEvent(c)
  /\ IF roomSize(roomId) = 0 \/ roomSize(roomId) >= 2
     THEN UNCHANGED <<socketRooms, roomOccupancy, overlap>>
     ELSE /\ socketRooms' = socketJoin(c, roomId)
          /\ roomOccupancy' = MapSet(roomOccupancy, roomId, roomSize(roomId) + 1)
          /\ overlap' = (overlap \/ c \in JoinedSockets(roomId))
  /\ UNCHANGED <<offline, leaving>>

\* The disconnecting loop from its position in rooms up to its next await: it skips
\* the rooms roomOccupancy does not have, reads newSize for the first it has, and
\* awaits trackUserLeft.  No such room: the handler returns (no run).
LoopToAwait(c, rooms, occupancy) ==
  LET has == {i \in DOMAIN rooms : rooms[i] \in DOMAIN occupancy}
  IN IF has = {}
     THEN {}
     ELSE LET i == CHOOSE j \in has : \A k \in has : j <= k
          IN {[conn |-> c, roomId |-> rooms[i], newSize |-> occupancy[rooms[i]] - 1,
               rooms |-> SubSeq(rooms, i + 1, Len(rooms))]}

\* Transport teardown: the disconnecting handler runs up to its first await over
\* Array.from(socket.rooms), then socket.io takes the socket out of every room.
CountDisconnecting(c) ==
  /\ CountEvent(c)
  /\ leaving' = leaving \cup LoopToAwait(c, socketRooms[c], roomOccupancy)
  /\ socketRooms' = [socketRooms EXCEPT ![c] = << >>]
  /\ offline' = offline \cup {c}
  /\ UNCHANGED <<roomOccupancy, overlap>>

\* disconnecting after trackUserLeft returned: delete the room, or store the newSize
\* computed before the await.
AfterUserLeft(run) ==
  IF run.newSize <= 0
  THEN MapDelete(roomOccupancy, run.roomId)
  ELSE MapSet(roomOccupancy, run.roomId, run.newSize)

\* disconnecting resumes: it stores the count and goes on with the next room.
CountDisconnectingResume(run) ==
  /\ run \in leaving
  /\ roomOccupancy' = AfterUserLeft(run)
  /\ leaving' = (leaving \ {run}) \cup LoopToAwait(run.conn, run.rooms, roomOccupancy')
  /\ UNCHANGED <<socketRooms, offline, countOps, overlap>>

InitCount ==
  /\ InitServer
  /\ store = "up"
  /\ StatsIdle
  /\ SessionsIdle
  /\ roomOccupancy = << >>
  /\ socketRooms = [c \in Conns |-> << >>]
  /\ offline = {}
  /\ leaving = {}
  /\ countOps = 0
  /\ overlap = FALSE

NextCount ==
  \/ \E c \in Conns, r \in RoomIds :
       CountCreateRoom(c, r) /\ UNCHANGED <<serverVars, statsVars, sessionVars>>
  \/ \E c \in Conns, r \in RoomIds :
       CountJoinRoom(c, r) /\ UNCHANGED <<serverVars, statsVars, sessionVars>>
  \/ \E c \in Conns : CountDisconnecting(c) /\ UNCHANGED <<serverVars, statsVars, sessionVars>>
  \/ \E run \in leaving :
       CountDisconnectingResume(run) /\ UNCHANGED <<serverVars, statsVars, sessionVars>>

CountSpec == InitCount /\ [][NextCount]_vars

----------------------------------------------------------------------------
\* What the last step was, read from the state it left.

Started(op) == lastOp.phase = "start" /\ lastOp.run.op = op

Resumed(op) == lastOp.phase = "resume" /\ lastOp.run.op = op

Relayed == lastOp.phase = "resume" /\ lastOp.run.op \in RelayEvents

\* This step is the handling of event op from connection c (up to its await).
Handles(op, c) ==
  /\ handled' = handled + 1
  /\ lastOp'.phase = "start"
  /\ lastOp'.run.op = op
  /\ lastOp'.run.conn = c

Members(roomId) == IF roomId \in DOMAIN roomUsers THEN roomUsers[roomId] ELSE {}

Events(es) == {es[i].event : i \in DOMAIN es}

Recipients(es) == UNION {es[i].to : i \in DOMAIN es}

----------------------------------------------------------------------------
\* C1: every registered room has at most MAX_ROOM_CAPACITY (2) members in every
\* reachable state.
C1_OccupancyAtMostCapacity ==
  \A r \in DOMAIN roomUsers : Cardinality(roomUsers[r]) <= MAX_ROOM_CAPACITY

\* C2: a join-room for a room that has 2 members, from a connection that is not one of
\* them, is rejected: the requester gets
\* room-full and error ROOM_FULL, and the registry and the reverse mapping stay as
\* they were.
C2_JoinOfFullRoomRejected ==
  [][\A c \in Conns, r \in RoomIds :
       (/\ Handles("join-room", c) /\ lastOp'.run.room = r
        /\ getRoomOccupancy(r) = MAX_ROOM_CAPACITY /\ c \notin Members(r))
       => /\ roomUsers' = roomUsers
          /\ userRoomMap' = userRoomMap
          /\ Len(emitted') = 2
          /\ emitted'[1].event = "room-full" /\ emitted'[1].to = {c}
          /\ emitted'[2] = Emit("error", {c}, [code |-> "ROOM_FULL"])]_vars

\* C3: a join-room for a room id that is not registered sends error ROOM_NOT_FOUND to
\* the requester alone and changes neither the registry nor the reverse mapping
\* (nor the socket.io rooms, nor the suspended handler runs).
C3_JoinUnknownRoom ==
  [][\A c \in Conns, r \in RoomArgs :
       (Handles("join-room", c) /\ lastOp'.run.room = r /\ r \notin DOMAIN roomUsers)
       => /\ emitted' = << Emit("error", {c}, [code |-> "ROOM_NOT_FOUND"]) >>
          /\ roomUsers' = roomUsers
          /\ userRoomMap' = userRoomMap
          /\ sockRooms' = sockRooms
          /\ pending' = pending]_vars

\* C3's case: a join-room was just answered ROOM_NOT_FOUND while another room is
\* registered with a member in it.
C3_Witness ==
  /\ Started("join-room")
  /\ lastOp.run.room \notin DOMAIN roomUsers
  /\ Events(emitted) = {"error"}
  /\ \E r \in DOMAIN roomUsers : roomUsers[r] \ {lastOp.run.conn} # {}

\* C4: no reachable state holds a registered room with zero members.
C4_NoEmptyRegisteredRoom ==
  \A r \in DOMAIN roomUsers : roomUsers[r] # {}

\* C5: a room is removed from the registry, and room-dismissed is broadcast for it,
\* only while its member set is empty (stated for the runs in which generateRoomId
\* never returns the id of a registered room).
C5_OnlyEmptyRoomsRemoved ==
  [][~collided' =>
       /\ \A r \in DOMAIN roomUsers : r \notin DOMAIN roomUsers' => roomUsers[r] = {}
       /\ \A i \in DOMAIN emitted' :
            emitted'[i].event = "room-dismissed" => Members(emitted'[i].data.roomId) = {}]_vars

\* This step is a leave-room or a disconnect of the only member of room r.
LastMemberDeparts(r) ==
  /\ \E c \in Conns : Handles("leave-room", c) \/ Handles("disconnecting", c)
  /\ lastOp'.run.room = r
  /\ Members(r) = {lastOp'.run.conn}

\* C6: a room becomes non-existent exactly in the step in which its last member
\* departs, and at most one room-dismissed is broadcast in a room lifetime.
C6_DismissedOnceAtLastDeparture ==
  [][\A r \in RoomIds :
       /\ (r \in DOMAIN roomUsers /\ r \notin DOMAIN roomUsers') <=> LastMemberDeparts(r)
       /\ dismissals'[r] <= 1]_vars

\* C7: the teardown of a connection that is mapped to no room changes neither the
\* registry nor the reverse mapping, emits nothing and suspends no handler run
\* (so that nothing is emitted for it later either).
C7_DisconnectOutsideRooms ==
  [][\A c \in Conns :
       (Handles("disconnecting", c) /\ c \notin DOMAIN userRoomMap)
       => /\ roomUsers' = roomUsers
          /\ userRoomMap' = userRoomMap
          /\ emitted' = << >>
          /\ pending' = pending]_vars

\* C7's case: a connection that left its room with leave-room (the run is still
\* suspended) was just torn down, while a room is registered.
C7_Witness ==
  /\ Started("disconnecting")
  /\ lastOp.run.room = None
  /\ ~connected[lastOp.run.conn]
  /\ \E t \in Suspended : t.op = "leave-room" /\ t.conn = lastOp.run.conn
  /\ roomUsers # << >>

\* C8: a relayed offer / answer / ice-candidate is one emit of the same event that
\* carries the payload as sent, reaches every other connected member of the named
\* room, and never reaches the sender.
C8_RelayToOtherMembers ==
  Relayed =>
    /\ Len(emitted) = 1
    /\ emitted[1].event = lastOp.run.op
    /\ emitted[1].data = [payload |-> lastOp.run.payload]
    /\ lastOp.run.conn \notin emitted[1].to
    /\ \A c \in Members(lastOp.run.room) \ {lastOp.run.conn} :
         connected[c] => c \in emitted[1].to

\* C8's case: a member of a room relayed a payload and the other member got it.
C8_Witness ==
  /\ Relayed
  /\ lastOp.run.conn \in Members(lastOp.run.room)
  /\ Members(lastOp.run.room) \ {lastOp.run.conn} # {}
  /\ emitted[1].to = Members(lastOp.run.room) \ {lastOp.run.conn}
  /\ emitted[1].data.payload = lastOp.run.payload

\* C9: a relayed event whose sender is not a member of the room it names reaches no
\* connection.
C9_NonMemberRelayDropped ==
  (Relayed /\ lastOp.run.conn \notin Members(lastOp.run.room)) => Recipients(emitted) = {}

\* C10: in every user-joined and room-joined isFull is true exactly when the
\* occupancy it reports is the capacity; a join that brings the room to 2 members
\* reports occupancy 2 and isFull in both, then broadcasts room-full to the members.
C10_JoinReportsFull ==
  Resumed("join-room") =>
    /\ \A i \in DOMAIN emitted :
         emitted[i].event \in {"user-joined", "room-joined"}
         => (emitted[i].data.isFull <=> emitted[i].data.occupancy = MAX_ROOM_CAPACITY)
    /\ lastOp.run.occ = MAX_ROOM_CAPACITY
       => /\ Len(emitted) = 3
          /\ emitted[1].event = "user-joined" /\ emitted[1].data.occupancy = 2
          /\ emitted[1].data.isFull
          /\ emitted[2].event = "room-joined" /\ emitted[2].data.occupancy = 2
          /\ emitted[2].data.isFull
          /\ emitted[3].event = "room-full"

----------------------------------------------------------------------------
\* This step is the continuation of a suspended run of handler op.
Resumes(op) ==
  /\ handled' = handled
  /\ lastOp'.phase = "resume"
  /\ lastOp'.run.op = op

\* C11: create-room by connection c registers a room whose member set is exactly {c}
\* and maps c to it; its acknowledgement is one room-created to the creator that
\* carries that room id, occupancy 1 and capacity 2.
C11_CreateRoomContract ==
  [][/\ \A c \in Conns :
          Handles("create-room", c)
          => /\ lastOp'.run.room \in DOMAIN roomUsers'
             /\ roomUsers'[lastOp'.run.room] = {c}
             /\ c \in DOMAIN userRoomMap'
             /\ userRoomMap'[c] = lastOp'.run.room
     /\ Resumes("create-room")
        => emitted' = << Emit("room-created",
                              IF connected[lastOp'.run.conn] THEN {lastOp'.run.conn} ELSE {},
                              [roomId |-> lastOp'.run.room, occupancy |-> 1, capacity |-> 2]) >>]_vars

\* C11's case: the creator just got room-created for a room another connection has
\* joined in the meantime, and is still mapped to it.
C11_Witness ==
  /\ Resumed("create-room")
  /\ emitted[1].to = {lastOp.run.conn}
  /\ emitted[1].data.roomId = lastOp.run.room
  /\ lastOp.run.room \in DOMAIN roomUsers
  /\ Cardinality(roomUsers[lastOp.run.room]) = 2
  /\ MapGet(userRoomMap, lastOp.run.conn) = lastOp.run.room

\* The last step was the continuation of a leave-room or of a disconnecting run.
Departed == Resumed("leave-room") \/ Resumed("disconnecting")

C14_SameConnectionInOrder ==
  [][\A t \in Suspended :
       (/\ ~collided'
        /\ handled' = handled
        /\ lastOp' = Op("resume", t)
        /\ Recipients(emitted') \ {t.conn} # {})
       => \A j \in 1..(FirstOf(t) - 1) : arrivals[j].conn # t.conn]_vars

\* The handlers that read or mutate roomUsers / userRoomMap.
RoomOps == {"create-room", "join-room", "leave-room", "disconnecting"}

\* C15: room operations are serialized: a create-room, join-room, leave-room or
\* disconnect handler of one connection starts only when no room handler of another
\* connection is between its registry mutation and the emission of its notifications.
C15_RoomOperationsSerialized ==
  [][\A c \in Conns :
       (\E op \in RoomOps : Handles(op, c))
       => \A t \in Suspended : t.op \in RoomOps => t.conn = c]_vars

\* C16: with the store unreachable for good, no store failure reaches a handler:
\* every handler run that waited on its analytics call goes on to its continuation
\* (the registry update and the notifications it makes when the store answers),
\* none ends at its await, and in the end no run is left waiting.
C16_StoreFailureContained ==
  /\ [][(store = "down" /\ handled' = handled) => lastOp'.phase = "resume"]_vars
  /\ <>[](pending = << >>)

\* C16's case: with the store down, a join-room went on after trackRoomJoined and
\* notified the member and the joiner.
C16_Witness ==
  /\ store = "down"
  /\ Resumed("join-room")
  /\ Len(emitted) = 2
  /\ emitted[1].event = "user-joined" /\ emitted[1].to # {}
  /\ emitted[2].event = "room-joined" /\ emitted[2].to = {lastOp.run.conn}
  /\ lastOp.run.conn \in Members(lastOp.run.room)

\* C17: an operation's notifications are emitted in the step that handles its event,
\* before its analytics call is dispatched: handling create-room, join-room,
\* leave-room, a disconnect or a relayed event never leaves a run waiting on the
\* store with its notifications still to send.
C17_NotificationsBeforeAnalytics ==
  [][\A c \in Conns :
       (\E op \in RoomOps \cup RelayEvents : Handles(op, c))
       => /\ pending' = pending
          /\ \A t \in Suspended : t.conn # c]_vars

----------------------------------------------------------------------------
\* The calls of function fn, and those of them that have returned.
Issued(fn) == {i \in DOMAIN calls : calls[i].fn = fn}

Returned(fn) == {i \in Issued(fn) : calls[i].pc = "done"}

AllReturned == \A i \in DOMAIN calls : calls[i].pc = "done"

\* C18: concurrent incrementDailyStat(field, 1) calls lose no update: at every moment
\* the day's counter is what it was before the calls plus the number of calls that
\* have returned, so that N calls add exactly N, also when the day's document does
\* not exist at first and one of the calls creates it.
C18_DailyIncrementsConserved ==
  /\ dailyStats.roomsCreated = day0.roomsCreated + Cardinality(Returned("incrementDailyStat"))
  /\ Returned("incrementDailyStat") # {} => dailyStats.exists

\* C18's case: the day had no document, every call was an incrementDailyStat, all
\* have returned, and the counter is their number.
C18_Witness ==
  /\ ~day0.exists
  /\ Cardinality(Issued("incrementDailyStat")) = MaxCalls
  /\ AllReturned
  /\ dailyStats.exists
  /\ dailyStats.roomsCreated = MaxCalls

\* C19: concurrent incrementHourlyStat(field, 1) calls lose no update: when the calls
\* are N incrementHourlyStat calls and all have returned, the counter of the hour's
\* bucket is what it was before the calls plus N, also when the day's document or
\* the hour's bucket did not exist at first.
C19_HourlyIncrementsConserved ==
  (AllReturned /\ Issued("incrementHourlyStat") = DOMAIN calls)
  => HourCounter(dailyStats) = HourCounter(day0) + Cardinality(Issued("incrementHourlyStat"))

\* C20: for a room id and a day, at most one 'closed' event is recorded and
\* roomsCompleted is incremented at most once, however the trackRoomClosed calls
\* for the room interleave.
C20_RoomClosedOnce ==
  /\ roomEvents <= 1
  /\ dailyStats.roomsCompleted <= day0.roomsCompleted + 1

----------------------------------------------------------------------------
\* The statuses after which a session is over.
Terminal == {"completed", "failed", "cancelled"}

\* C21: a TransferSession whose status is completed, failed or cancelled keeps that
\* status in every later step, whatever transfer-start, transfer-complete,
\* transfer-failed and data-transfer events name its session id.
C21_TerminalStatusFinal ==
  [][\A id \in DOMAIN sessions :
       sessions[id].status \in Terminal => sessions'[id].status = sessions[id].status]_vars

\* C22: in every reachable state each connection is in the member set of at most
\* one room, also after create-room and join-room requests from a connection that
\* is in a room already.
C22_OneRoomPerConnection ==
  \A c \in Conns : Cardinality({r \in DOMAIN roomUsers : c \in roomUsers[r]}) <= 1

\* The positions of event e in the emissions of the last step.
Positions(e) == {i \in DOMAIN emitted : emitted[i].event = e}

\* C23: within one successful join-room, user-joined and room-joined are emitted
\* before the room-full broadcast, and the join emits at most one room-full.
C23_MemberNotificationsBeforeRoomFull ==
  Resumed("join-room") =>
    /\ Cardinality(Positions("room-full")) <= 1
    /\ \A i \in Positions("room-full") :
         /\ \E j \in Positions("user-joined") : j < i
         /\ \E k \in Positions("room-joined") : k < i

C23_Witness ==
  /\ Resumed("join-room")
  /\ Positions("room-full") # {}
  /\ \E j \in Positions("user-joined") : emitted[j].to # {}
  /\ \E k \in Positions("room-joined") : emitted[k].to = {lastOp.run.conn}

\* Connection c is in the member set of a registered room.
IsMember(c) == \E r \in DOMAIN roomUsers : c \in roomUsers[r]

\* C24: in every registry state and for every member c, a disconnect of c leaves
\* roomUsers and userRoomMap as an explicit leave-room by c leaves them (the
\* departure each of them then reports is the one of DepartureEmits; leave-room
\* adds room-left).  Registry states that follow a collision of room ids are left out.
C24_DisconnectAsLeaveRoom ==
  \A c \in Conns :
    (connected[c] /\ IsMember(c) /\ ~collided) =>
      /\ DisconnectUsers(c) = LeaveUsers(c)
      /\ DisconnectUserRoomMap(c) = LeaveUserRoomMap(c)

\* C25: a signaling counter of a TransferSession is incremented only while the
\* session's status is initiated or transferring at the time of the increment.
C25_CountsActiveSessionOnly ==
  [][\A id \in DOMAIN sessions :
       (\E f \in {"offers", "answers", "iceCandidates"} : sessions'[id][f] # sessions[id][f]) =>
         sessions[id].status \in Active]_vars

\* Connection c is in no room: it has no userRoomMap entry and is in no member set.
InNoRoom(c) == c \notin DOMAIN userRoomMap /\ ~IsMember(c)

\* C26: a leave-room from a connection that is in no room leaves roomUsers and
\* userRoomMap unchanged, emits no notification, and suspends no continuation that
\* could emit one later.
C26_LeaveRoomOutsideAnyRoom ==
  [][\A c \in Conns :
       (Handles("leave-room", c) /\ InNoRoom(c)) =>
         /\ roomUsers' = roomUsers
         /\ userRoomMap' = userRoomMap
         /\ emitted' = << >>
         /\ pending' = pending]_vars

C26_Witness ==
  /\ Started("leave-room")
  /\ lastOp.run.room = None
  /\ InNoRoom(lastOp.run.conn)
  /\ DOMAIN roomUsers # {}
  /\ emitted = << >>

\* C27: every recipient of a relayed offer / answer / ice-candidate is, when it is
\* emitted, a registered member of the room the message names and is not the sender,
\* and a relay has at most one recipient.  Relays that follow a collision of room ids
\* are left out.
C27_RelayRecipientIsTheOtherMember ==
  (Relayed /\ ~collided) =>
    /\ Recipients(emitted) \subseteq Members(lastOp.run.room) \ {lastOp.run.conn}
    /\ Cardinality(Recipients(emitted)) <= 1

\* No connection that is in room r (by its member set, by userRoomMap or by the
\* socket.io room) is connected: whoever created or joined r has left it or disconnected.
NoLiveMember(r) ==
  \A c \in Conns :
    (c \in Members(r) \/ c \in sockRooms[r] \/ MapGet(userRoomMap, c) = r) => ~connected[c]

\* C28: once every connection that created or joined a room has left or disconnected
\* and every analytics call has returned, the room is eventually removed from the
\* registry (stated for the runs in which generateRoomId never returns the id of a
\* registered room).
C28_AbandonedRoomRemoved ==
  \A r \in RoomIds :
    (r \in DOMAIN roomUsers /\ Suspended = {} /\ NoLiveMember(r) /\ ~collided)
      ~> (r \notin DOMAIN roomUsers)

\* C29: a day has at most one DailyStats document (the unique index on date keeps
\* dailyStats the one document of the day) and, in it, the hour has at most one
\* bucket, however incrementDailyStat and incrementHourlyStat calls interleave.
C29_OneBucketPerHour == Len(dailyStats.hourlyBreakdown) <= 1

\* C30: userRoomMap maps connection c to room r if and only if r is registered in
\* roomUsers and c is in r's member set (stated for the states no collision of room
\* ids led to).
C30_ReverseMappingConsistent ==
  ~collided =>
    \A c \in Conns, r \in RoomIds :
      (MapGet(userRoomMap, c) = r) <=> (r \in DOMAIN roomUsers /\ c \in roomUsers[r])

\* C31: the occupancy in every user-joined, room-joined and user-left equals the
\* number of members the room has when the notification is emitted, also when
\* another connection joined or left the room while the handler was suspended
\* (stated for the runs in which generateRoomId never returns the id of a
\* registered room).
C31_OccupancyIsCurrent ==
  ((Resumed("join-room") \/ Departed) /\ ~collided) =>
    \A i \in DOMAIN emitted :
      emitted[i].event \in {"user-joined", "room-joined", "user-left"}
        => emitted[i].data.occupancy = Cardinality(Members(lastOp.run.room))

\* C32: create-room never changes the existence or the member set of a room that
\* is registered already: the id it allocates is not the id of a registered room.
C32_CreateRoomKeepsOtherRooms ==
  [][\A c \in Conns :
       Handles("create-room", c) =>
         /\ lastOp'.run.room \notin DOMAIN roomUsers
         /\ \A r \in DOMAIN roomUsers :
              r \in DOMAIN roomUsers' /\ roomUsers'[r] = roomUsers[r]]_vars

\* C33: for every registered room the active-rooms query reports isFull exactly
\* when a join-room to that room would now be rejected as full, and the userCount
\* it reports is at most the capacity it reports.
C33_ActiveRoomsAgreesWithJoin ==
  \A r \in DOMAIN roomUsers :
    /\ activeRooms[r].isFull <=> (roomExists(r) /\ isRoomFull(r))
    /\ activeRooms[r].userCount <= activeRooms[r].capacity

\* C34: a TransferSession adds to the day's transfersCompleted at most once, and
\* its bytes to totalBytesTransferred at most once, whatever transfer-complete and
\* data-transfer events name its session id (stated when every handler has returned
\* and every data-transfer found the session it named, so that no minimal record
\* stands for it).
C34_SessionCountedOnce ==
  (runs = {} /\ \A r \in DOMAIN MinimalId : ~sessions[MinimalId[r]].exists) =>
    \A id \in DOMAIN counted :
      /\ counted[id].transfersCompleted <= 1
      /\ Cardinality({i \in DOMAIN counted[id].totalBytesTransferred :
                         counted[id].totalBytesTransferred[i] > 0}) <= 1

\* C35: in the count-based server the stored occupancy of every room is the number
\* of connected sockets joined to it, however join-room and disconnecting handlers
\* interleave: two members that disconnect concurrently leave the room removed.
\* Stated when no disconnecting handler is suspended, for the runs in which no
\* create-room drew a registered id and no socket joined a room it was in.
C35_CountIsJoinedSockets ==
  (leaving = {} /\ ~overlap) =>
    \A r \in RoomIds : roomSize(r) = Cardinality(JoinedSockets(r))

====
